---- MODULE Spec2Model ----
(***************************************************************************)
(* Pipelayer (src/pipelayer/core.py): a set of Pipeline objects sharing a  *)
(* definition template, validated against and reconciled with a remote     *)
(* Data Pipeline service, and the schedule-time arithmetic of              *)
(* adjusted_to_future.                                                     *)
(*                                                                         *)
(* Spec      the Pipelayer / Pipeline operations, one action per remote    *)
(*           call, against a model of the remote service.                  *)
(* SpecTime  Pipeline.__init__'s schedule adjustment: parse_period and the *)
(*           loop of adjusted_to_future, one action per iteration.         *)
(***************************************************************************)
EXTENDS Integers, Sequences, FiniteSets, TLC

\* ------------------------------------------------------------------ bounds
\* Object ids a definition can hold: its 'objects' part is 0 (no objects)..MaxObjects.
MaxObjects == 1
\* Contents of a values.json 'values' map: 1..MaxValues (0: no 'values' key).
MaxValues == 1
\* Remote pipeline ids the service hands out: 1..MaxIds.
MaxIds == 3
\* Directory names given to add_pipeline.
Names == {"a", "b"}

\* ------------------------------------------------------------------ state
VARIABLES
    remote,       \* the service: pipeline id -> [key, state, definition] of the live entities
    nextId,       \* the service: the next pipeline id it hands out
    rejects,      \* the service: the instances whose payload validate reports errored
    template,     \* Pipelayer.template
    pipelines,    \* Pipelayer.pipelines: name -> Pipeline
    top,          \* the running (or last finished) top-level call
    pc,           \* position inside it; "idle" between calls
    cur,          \* the Pipeline a method is running on (self)
    todo,         \* instances the running for-loop has not visited yet
    results,      \* the list built by are_pipelines_valid: name -> is_valid()
    pipeline_id,  \* local of is_valid / activate
    existing_definition, \* local of activate
    state,        \* local of activate
    depth,        \* recursion depth of Pipeline.activate
    ret,          \* value returned by the last finished top-level call
    log,          \* remote calls issued by the running (or last finished) top-level call
    prev,         \* when the call repeats the p.activate() just returned: the id that one used
    timestamp,    \* adjusted_to_future: argument (whole seconds)
    period,       \* adjusted_to_future: argument, [number, unit]
    dt, delta, now, \* adjusted_to_future: locals (ticks)
    tpc,          \* adjusted_to_future: position
    myStartDateTime, \* Pipeline.values['myStartDateTime'] (whole seconds; -1 before it is read)
    heap,         \* the nested containers of the definition dicts: reference -> content
    tdict,        \* Pipelayer.template as a dict: key -> reference of its container
    idict,        \* Pipeline.definition of each instance as a dict: key -> reference
    inv           \* overlapping Pipeline.activate() invocations: the locals of each

svcVars == <<remote, nextId, rejects>>
setVars == <<template, pipelines>>
callVars == <<top, pc, cur, todo, results, pipeline_id, existing_definition, state, depth, ret, log,
              prev>>
timeVars == <<timestamp, period, dt, delta, now, tpc, myStartDateTime>>
otherVars == <<heap, tdict, idict, inv>>
vars == <<svcVars, setVars, callVars, timeVars, otherVars>>

\* ------------------------------------------------------------ definitions
\* A definition dict: its objects/parameters part and its 'values' part.
Definitions == [objects : 0..MaxObjects, values : 0..MaxValues]

\* What get_pipeline_definition yields for an entity nothing was put to.
EmptyDefinition == [objects |-> 0, values |-> 0]

PIPELINE_STATES == {"PENDING", "SCHEDULED", "FINISHED"}

PIPELAYER_STUB_PARAMS == [name |-> "Pipelayer validation stub", unique_id |-> "stub"]

\* (variant: the instances share the validation stub's unique_id)
UniqueIdOfStub(name) == "stub"

\* self.unique_id, whatever the instance's name
UniqueId(name) == "unique_id"

\* Pipeline.__init__: the object built from the template and values.json
Pipeline(tmpl, name, values) ==
    [name |-> name, unique_id |-> UniqueId(name), definition |-> tmpl, values |-> values]

\* The payload of put / validate: api_objects() and api_parameters() of the
\* definition, api_values() of self.values (the definition's own 'values' are not sent).
ApiPayload(p) == [objects |-> p.definition.objects, values |-> p.values]

\* definition_from_id: the definition the service holds, as a definition dict
DefinitionFromId(id) == remote[id].definition

\* state_from_id: the '@pipelineState' field of describe_pipelines
StateFromId(id) == remote[id].state

\* ---------------------------------------------------------------- service
HasKey(key) == \E i \in DOMAIN remote : remote[i].key = key
IdOfKey(key) == CHOOSE i \in DOMAIN remote : remote[i].key = key

\* A newly created entity.
FreshEntity(key) == [key |-> key, state |-> "PENDING", definition |-> EmptyDefinition]

\* create_pipeline(name, unique_id, description): the id of the live entity
\* with this unique_id, a new entity when there is none.
CreateId(key) == IF HasKey(key) THEN IdOfKey(key) ELSE nextId
CreateRemote(key) == IF HasKey(key) THEN remote ELSE remote @@ (nextId :> FreshEntity(key))
CreateNext(key) == IF HasKey(key) THEN nextId ELSE nextId + 1

\* delete_pipeline(id)
DeleteRemote(id) == [i \in DOMAIN remote \ {id} |-> remote[i]]

\* put_pipeline_definition(objects, id, parameters, values)
PutRemote(id, payload) == [remote EXCEPT ![id].definition = payload]

\* activate_pipeline(id)
ActivateRemote(id) == [remote EXCEPT ![id].state = "SCHEDULED"]

\* validate_pipeline_definition(...)['errored'] for instance p
Errored(p) == p.name \in rejects

\* the unique_id the entity with this id was created under
KeyOf(id) == remote[id].key

\* -------------------------------------------------------------------- log
\* One remote call: the operation, the pipeline id and the unique_id of the
\* entity it addresses, and the instance (self) that issued it.
Entry(op, id, key, by) ==
    [op |-> op, id |-> id, key |-> key, by |-> by, new |-> FALSE,
     definition |-> EmptyDefinition, state |-> "-", failed |-> FALSE]

\* Ids a call may still need from the service (one for the stub, one per delete).
IdsLeft == MaxIds + 1 - nextId


\* ------------------------------------------------------------ decisions
\* (variant: any() in place of all())
AnyValid(res) == \E n \in DOMAIN res : res[n]

\* are_pipelines_valid: all([...]) over the list of is_valid() results
AllValid(res) == \A n \in DOMAIN res : res[n]

\* (variant: the comparison of the definitions is inverted)
BranchEqualityInverted(existing, desired, st) ==
    IF existing # desired THEN "noop"
    ELSE IF st # "PENDING" THEN "delete"
    ELSE "push"

\* (variant: the state is tested before the definitions are compared)
BranchStateFirst(existing, desired, st) ==
    IF st # "PENDING" THEN "delete"
    ELSE IF existing = desired THEN "noop"
    ELSE "push"

\* (variant: the state test is inverted)
BranchStateInverted(existing, desired, st) ==
    IF existing = desired THEN "noop"
    ELSE IF st = "PENDING" THEN "delete"
    ELSE "push"

\* (variant: the state is not tested, a differing entity is always deleted)
BranchAlwaysDelete(existing, desired, st) ==
    IF existing = desired THEN "noop" ELSE "delete"

\* (variant: the state is not tested, a differing definition is always pushed)
BranchNeverDelete(existing, desired, st) ==
    IF existing = desired THEN "noop" ELSE "push"

\* Pipeline.activate: the branch taken after the definition and state are read
Branch(existing, desired, st) ==
    IF existing = desired THEN "noop"
    ELSE IF st # "PENDING" THEN "delete"
    ELSE "push"

\* (variant: only one of the instances is validated)
ToValidateOne(ps) == IF DOMAIN ps = {} THEN {} ELSE {CHOOSE n \in DOMAIN ps : TRUE}

\* are_pipelines_valid: the instances the list comprehension visits
ToValidate(ps) == DOMAIN ps

\* Pipelayer.activate: what follows are_pipelines_valid()
Gate(valid) == IF valid THEN "a_loop" ELSE "return_false"

\* ------------------------------------------------------------------- init
NoPipelines == [n \in {} |-> 0]

\* The running call does not repeat the call before it.
NoPrev == [repeat |-> FALSE, id |-> 0]

InitRealEntities ==
    {[present |-> FALSE, state |-> "PENDING", definition |-> EmptyDefinition]}
    \cup [present : {TRUE}, state : PIPELINE_STATES, definition : Definitions]

\* The entities found at the service when the program starts: the stub of an
\* earlier run (PENDING, nothing put to it) and the entity of an earlier
\* deployment, created under the unique_id of core.py line 216.
InitRemote(stub, real) ==
    LET s == IF stub THEN (1 :> FreshEntity(PIPELAYER_STUB_PARAMS.unique_id))
             ELSE NoPipelines
        k == IF stub THEN 2 ELSE 1
    IN  IF real.present
        THEN s @@ (k :> [key |-> "unique_id", state |-> real.state,
                         definition |-> real.definition])
        ELSE s

TimeIdle ==
    /\ timestamp = 0 /\ period = [number |-> 0, unit |-> "seconds"]
    /\ dt = 0 /\ delta = 0 /\ now = 0 /\ tpc = "off" /\ myStartDateTime = -1

\* The dicts are looked at as values (template, pipelines), not as references,
\* and one call runs at a time.
OthersIdle ==
    /\ heap = NoPipelines /\ tdict = NoPipelines /\ idict = NoPipelines
    /\ inv = NoPipelines

Init ==
    /\ OthersIdle
    /\ \E stub \in BOOLEAN, real \in InitRealEntities :
          /\ remote = InitRemote(stub, real)
          /\ nextId = Cardinality(DOMAIN InitRemote(stub, real)) + 1
    /\ rejects \in SUBSET Names
    /\ template \in Definitions
    /\ pipelines = NoPipelines
    /\ top = "none" /\ pc = "idle" /\ cur = "-" /\ todo = {}
    /\ results = NoPipelines
    /\ pipeline_id = 0 /\ existing_definition = EmptyDefinition /\ state = "-"
    /\ depth = 0 /\ ret = "-" /\ log = <<>> /\ prev = NoPrev
    /\ TimeIdle

\* ---------------------------------------------------------------- actions
\* Pipelayer.add_pipeline(dirpath): a new Pipeline, registered under its name
\* (values: the 'values' of its values.json, start time already adjusted).
AddPipeline(name, values) ==
    /\ pc = "idle" /\ top = "none"
    /\ pipelines' = [n \in DOMAIN pipelines \cup {name} |->
                        IF n = name THEN Pipeline(template, name, values)
                        ELSE pipelines[n]]
    /\ UNCHANGED <<otherVars, svcVars, template, callVars, timeVars>>

StubIds == IF HasKey(PIPELAYER_STUB_PARAMS.unique_id) THEN 0 ELSE 1

\* A top-level call begins: its locals and its log start empty.
Begin(call, self, loop, at) ==
    /\ top' = call /\ pc' = at /\ cur' = self /\ todo' = loop
    /\ results' = NoPipelines /\ pipeline_id' = 0
    /\ existing_definition' = EmptyDefinition /\ state' = "-"
    /\ depth' = 0 /\ ret' = "-" /\ log' = <<>>
    /\ prev' = IF call = "Pipeline.activate" /\ top = call /\ cur = self /\ ret # "-"
               THEN [repeat |-> TRUE, id |-> pipeline_id]
               ELSE NoPrev
    /\ UNCHANGED <<otherVars, svcVars, setVars, timeVars>>

\* p.is_valid() called directly
CallIsValid(n) ==
    /\ pc = "idle" /\ n \in DOMAIN pipelines
    /\ IdsLeft >= StubIds
    /\ Begin("is_valid", n, {}, "v_create")

\* Pipelayer.are_pipelines_valid() called directly
CallArePipelinesValid ==
    /\ pc = "idle"
    /\ IdsLeft >= StubIds
    /\ Begin("are_pipelines_valid", "-", ToValidate(pipelines), "v_loop")

\* p.activate() called directly
CallPipelineActivate(n) ==
    /\ pc = "idle" /\ n \in DOMAIN pipelines
    /\ IdsLeft >= 1
    /\ Begin("Pipeline.activate", n, {}, "a_create")

\* Pipelayer.activate()
CallPipelayerActivate ==
    /\ pc = "idle"
    /\ IdsLeft >= StubIds + Cardinality(DOMAIN pipelines)
    /\ Begin("Pipelayer.activate", "-", ToValidate(pipelines), "v_loop")

\* are_pipelines_valid: the list comprehension visits the next instance
ValidateNext ==
    /\ pc = "v_loop" /\ todo # {}
    /\ \E n \in todo : cur' = n /\ todo' = todo \ {n}
    /\ pc' = "v_create"
    /\ UNCHANGED <<otherVars, svcVars, setVars, timeVars, prev, top, results, pipeline_id,
                   existing_definition, state, depth, ret, log>>

\* are_pipelines_valid returns all(...); Pipelayer.activate goes on or gives up
ValidateDone ==
    /\ pc = "v_loop" /\ todo = {}
    /\ IF top = "are_pipelines_valid"
       THEN /\ pc' = "idle"
            /\ ret' = IF AllValid(results) THEN "True" ELSE "False"
            /\ todo' = todo
       ELSE IF Gate(AllValid(results)) = "a_loop"
       THEN pc' = "a_loop" /\ todo' = DOMAIN pipelines /\ ret' = ret
       ELSE pc' = "idle" /\ todo' = todo /\ ret' = "False"
    /\ cur' = "-"
    /\ UNCHANGED <<otherVars, svcVars, setVars, timeVars, prev, top, results, pipeline_id,
                   existing_definition, state, depth, log>>

\* is_valid: create_pipeline(**PIPELAYER_STUB_PARAMS)
StubCreate ==
    /\ pc = "v_create"
    /\ LET key == PIPELAYER_STUB_PARAMS.unique_id
           id  == CreateId(key)
       IN  /\ pipeline_id' = id
           /\ log' = Append(log, [Entry("create_pipeline", id, key, cur)
                                     EXCEPT !.new = ~HasKey(key)])
           /\ remote' = CreateRemote(key)
           /\ nextId' = CreateNext(key)
    /\ pc' = "v_validate"
    /\ UNCHANGED <<otherVars, rejects, setVars, timeVars, prev, top, cur, todo, results,
                   existing_definition, state, depth, ret>>

\* is_valid: validate_pipeline_definition against the stub; return not errored
Validate ==
    /\ pc = "v_validate"
    /\ LET ok == ~Errored(pipelines[cur])
       IN  /\ results' = [n \in DOMAIN results \cup {cur} |->
                             IF n = cur THEN ok ELSE results[n]]
           /\ IF top = "is_valid"
              THEN pc' = "idle" /\ ret' = (IF ok THEN "True" ELSE "False")
              ELSE pc' = "v_loop" /\ ret' = ret
    /\ log' = Append(log, Entry("validate_pipeline_definition", pipeline_id, KeyOf(pipeline_id), cur))
    /\ UNCHANGED <<otherVars, svcVars, setVars, timeVars, prev, top, cur, todo, pipeline_id,
                   existing_definition, state, depth>>

\* Pipelayer.activate: the for-loop calls p.activate() on the next instance
ActivateNext ==
    /\ pc = "a_loop" /\ todo # {}
    /\ \E n \in todo : cur' = n /\ todo' = todo \ {n}
    /\ pc' = "a_create" /\ depth' = 0
    /\ UNCHANGED <<otherVars, svcVars, setVars, timeVars, prev, top, results, pipeline_id,
                   existing_definition, state, ret, log>>

\* Pipelayer.activate: the for-loop is over; the method returns None
ActivateAllDone ==
    /\ pc = "a_loop" /\ todo = {}
    /\ pc' = "idle" /\ ret' = "None" /\ cur' = "-"
    /\ UNCHANGED <<otherVars, svcVars, setVars, timeVars, prev, top, todo, results, pipeline_id,
                   existing_definition, state, depth, log>>

\* Pipeline.activate returns value: to the caller of the top-level call, or
\* into the for-loop of Pipelayer.activate, which drops the value.
Return(value) ==
    IF top = "Pipeline.activate"
    THEN pc' = "idle" /\ ret' = value
    ELSE pc' = "a_loop" /\ ret' = ret

\* Pipeline.activate: pipeline_id = self.create()
Create ==
    /\ pc = "a_create"
    /\ LET key == pipelines[cur].unique_id
           id  == CreateId(key)
       IN  /\ pipeline_id' = id
           /\ log' = Append(log, [Entry("create_pipeline", id, key, cur)
                                     EXCEPT !.new = ~HasKey(key)])
           /\ remote' = CreateRemote(key)
           /\ nextId' = CreateNext(key)
    /\ pc' = "a_get" /\ depth' = depth + 1
    /\ UNCHANGED <<otherVars, rejects, setVars, timeVars, prev, top, cur, todo, results,
                   existing_definition, state, ret>>

\* Pipeline.activate: existing_definition = definition_from_id(conn, pipeline_id)
GetDefinition ==
    /\ pc = "a_get"
    /\ existing_definition' = DefinitionFromId(pipeline_id)
    /\ log' = Append(log, [Entry("get_pipeline_definition", pipeline_id, KeyOf(pipeline_id), cur)
                              EXCEPT !.definition = DefinitionFromId(pipeline_id)])
    /\ pc' = "a_describe"
    /\ UNCHANGED <<otherVars, svcVars, setVars, timeVars, prev, top, cur, todo, results,
                   pipeline_id, state, depth, ret>>

\* Pipeline.activate: state = state_from_id(conn, pipeline_id), then the branch
Describe ==
    /\ pc = "a_describe"
    /\ state' = StateFromId(pipeline_id)
    /\ log' = Append(log, [Entry("describe_pipelines", pipeline_id, KeyOf(pipeline_id), cur)
                              EXCEPT !.state = StateFromId(pipeline_id)])
    /\ LET b == Branch(existing_definition, pipelines[cur].definition,
                       StateFromId(pipeline_id))
       IN  IF b = "noop" THEN Return("True")
           ELSE IF b = "delete" THEN pc' = "a_delete" /\ ret' = ret
           ELSE pc' = "a_put" /\ ret' = ret
    /\ UNCHANGED <<otherVars, svcVars, setVars, timeVars, prev, top, cur, todo, results,
                   pipeline_id, existing_definition, depth>>

\* Pipeline.activate: delete_pipeline(pipeline_id); return self.activate()
Delete ==
    /\ pc = "a_delete"
    /\ remote' = DeleteRemote(pipeline_id)
    /\ log' = Append(log, Entry("delete_pipeline", pipeline_id, KeyOf(pipeline_id), cur))
    /\ pc' = "a_create"
    /\ UNCHANGED <<otherVars, nextId, rejects, setVars, timeVars, prev, top, cur, todo, results,
                   pipeline_id, existing_definition, state, depth, ret>>

\* Pipeline.activate: put_pipeline_definition(api_objects, id, api_parameters, api_values)
Put ==
    /\ pc = "a_put"
    /\ remote' = PutRemote(pipeline_id, ApiPayload(pipelines[cur]))
    /\ log' = Append(log, [Entry("put_pipeline_definition", pipeline_id, KeyOf(pipeline_id), cur)
                              EXCEPT !.definition = ApiPayload(pipelines[cur])])
    /\ pc' = "a_activate"
    /\ UNCHANGED <<otherVars, nextId, rejects, setVars, timeVars, prev, top, cur, todo, results,
                   pipeline_id, existing_definition, state, depth, ret>>

\* Pipeline.activate: activate_pipeline(pipeline_id); the method ends (None)
Activate ==
    /\ pc = "a_activate"
    /\ remote' = ActivateRemote(pipeline_id)
    /\ log' = Append(log, Entry("activate_pipeline", pipeline_id, KeyOf(pipeline_id), cur))
    /\ Return("None")
    /\ UNCHANGED <<otherVars, nextId, rejects, setVars, timeVars, prev, top, cur, todo, results,
                   pipeline_id, existing_definition, state, depth>>

\* Every operation but self.create().
AllButCreate ==
    \/ \E n \in Names, v \in 1..MaxValues : AddPipeline(n, v)
    \/ \E n \in Names : CallIsValid(n)
    \/ CallArePipelinesValid
    \/ \E n \in Names : CallPipelineActivate(n)
    \/ CallPipelayerActivate
    \/ ValidateNext
    \/ ValidateDone
    \/ StubCreate
    \/ Validate
    \/ ActivateNext
    \/ ActivateAllDone
    \/ GetDefinition
    \/ Describe
    \/ Delete
    \/ Put
    \/ Activate

Next == AllButCreate \/ Create

Spec == Init /\ [][Next]_vars

\* ---------------------------------------------- a service off its contract
\* Passes of Pipeline.activate the interpreter lets the recursion reach
\* (its recursion limit, scaled).
MaxDepth == 3

\* Pipeline.activate: pipeline_id = self.create(), against a service whose new
\* entities need not be PENDING.
CreateUnreliable ==
    /\ pc = "a_create" /\ depth < MaxDepth
    /\ LET key == pipelines[cur].unique_id
           id  == CreateId(key)
       IN  /\ pipeline_id' = id
           /\ log' = Append(log, [Entry("create_pipeline", id, key, cur)
                                     EXCEPT !.new = ~HasKey(key)])
           /\ \E st \in PIPELINE_STATES :
                 remote' = IF HasKey(key) THEN remote
                           ELSE remote @@ (nextId :> [FreshEntity(key) EXCEPT !.state = st])
           /\ nextId' = CreateNext(key)
    /\ pc' = "a_get" /\ depth' = depth + 1
    /\ UNCHANGED <<otherVars, rejects, setVars, timeVars, prev, top, cur, todo, results,
                   existing_definition, state, ret>>

NextUnreliable == AllButCreate \/ CreateUnreliable

SpecUnreliable == Init /\ [][NextUnreliable]_vars

\* ------------------------------------------- the definition dicts as objects
\* Containers the dicts of one run may hold.
MaxRefs == 4

KEYS == {"objects", "values"}

FieldRange(k) == IF k = "objects" THEN 0..MaxObjects ELSE 0..MaxValues

\* dict.copy(): a new dict whose keys hold the same references.
Copy(d) == [k \in DOMAIN d |-> d[k]]

\* What a reader of the dict sees.
View(d) == [k \in DOMAIN d |-> heap[d[k]]]

\* Pipelayer.__init__: the template is read from its file; no instance yet.
InitCopy ==
    /\ remote = NoPipelines /\ nextId = 1 /\ rejects = {}
    /\ pipelines = NoPipelines
    /\ top = "none" /\ pc = "idle" /\ cur = "-" /\ todo = {}
    /\ results = NoPipelines
    /\ pipeline_id = 0 /\ existing_definition = EmptyDefinition /\ state = "-"
    /\ depth = 0 /\ ret = "-" /\ log = <<>> /\ prev = NoPrev
    /\ TimeIdle
    /\ tdict = [objects |-> 1, values |-> 2]
    /\ \E o \in FieldRange("objects"), v \in FieldRange("values") :
          /\ heap = (1 :> o) @@ (2 :> v)
          /\ template = [objects |-> o, values |-> v]
    /\ idict = NoPipelines
    /\ inv = NoPipelines

Idle == UNCHANGED <<svcVars, setVars, callVars, timeVars>>

\* add_pipeline -> Pipeline.__init__: self.definition = template.copy()
NewPipeline(name) ==
    /\ name \notin DOMAIN idict
    /\ idict' = (name :> Copy(tdict)) @@ idict
    /\ UNCHANGED <<heap, tdict, inv>> /\ Idle

\* p.definition[k][...] = c: a field inside a nested container is changed
SetField(name, k, c) ==
    /\ name \in DOMAIN idict
    /\ c # heap[idict[name][k]]
    /\ heap' = [heap EXCEPT ![idict[name][k]] = c]
    /\ UNCHANGED <<tdict, idict, inv>> /\ Idle

\* p.definition[k] = <new container>: a key of the instance's dict is rebound
SetKey(name, k, c) ==
    /\ name \in DOMAIN idict
    /\ Cardinality(DOMAIN heap) < MaxRefs
    /\ LET new == Cardinality(DOMAIN heap) + 1
       IN  /\ heap' = heap @@ (new :> c)
           /\ idict' = [idict EXCEPT ![name][k] = new]
    /\ UNCHANGED <<tdict, inv>> /\ Idle

NextCopy ==
    \/ \E n \in Names : NewPipeline(n)
    \/ \E n \in Names, k \in KEYS : \E c \in FieldRange(k) : SetField(n, k, c)
    \/ \E n \in Names, k \in KEYS : \E c \in FieldRange(k) : SetKey(n, k, c)

SpecCopy == InitCopy /\ [][NextCopy]_vars

\* --------------------------------------- overlapping activate() invocations
\* Two invocations of p.activate() for the same instance (two threads, or two
\* runs of the program against the same account).
Procs == {1, 2}

Other(p) == CHOOSE q \in Procs : q # p

\* The instance both invocations activate.
Shared == "a"

\* The locals of an invocation at its entry; deleted: the ids it has deleted,
\* stale: it has issued a call against an id the other one had deleted.
Entered ==
    [pc |-> "a_create", pipeline_id |-> 0, existing_definition |-> EmptyDefinition,
     state |-> "-", depth |-> 0, deleted |-> {}, stale |-> FALSE]

InitConcurrent ==
    /\ \E stub \in BOOLEAN, real \in InitRealEntities :
          /\ remote = InitRemote(stub, real)
          /\ nextId = Cardinality(DOMAIN InitRemote(stub, real)) + 1
    /\ rejects = {}
    /\ template \in Definitions
    /\ \E v \in 1..MaxValues : pipelines = (Shared :> Pipeline(template, Shared, v))
    /\ top = "none" /\ pc = "idle" /\ cur = "-" /\ todo = {}
    /\ results = NoPipelines
    /\ pipeline_id = 0 /\ existing_definition = EmptyDefinition /\ state = "-"
    /\ depth = 0 /\ ret = "-" /\ log = <<>> /\ prev = NoPrev
    /\ TimeIdle
    /\ heap = NoPipelines /\ tdict = NoPipelines /\ idict = NoPipelines
    /\ inv = [p \in Procs |-> Entered]

\* What the step of invocation p leaves alone.
Apart == UNCHANGED <<rejects, setVars, callVars, timeVars, heap, tdict, idict>>

\* The call invocation p issues addresses its pipeline_id.
Addressed(p) == inv[p].pipeline_id \in DOMAIN remote

\* Invocation p issues a call against its pipeline_id: noted when the other
\* invocation has deleted that id.
Issued(p) == [inv[p] EXCEPT !.stale = @ \/ inv[p].pipeline_id \in inv[Other(p)].deleted]

\* The call raises (the id is gone): the invocation ends with the exception.
Raised(p) == [Issued(p) EXCEPT !.pc = "error"]

\* pipeline_id = self.create()
ConcCreate(p) ==
    /\ inv[p].pc = "a_create" /\ inv[p].depth < MaxDepth
    /\ LET key == pipelines[Shared].unique_id
       IN  /\ inv' = [inv EXCEPT ![p] = [@ EXCEPT !.pipeline_id = CreateId(key),
                                                  !.pc = "a_get", !.depth = @ + 1]]
           /\ remote' = CreateRemote(key)
           /\ nextId' = CreateNext(key)
    /\ Apart

\* existing_definition = definition_from_id(self.conn, pipeline_id)
ConcGetDefinition(p) ==
    /\ inv[p].pc = "a_get"
    /\ inv' = [inv EXCEPT ![p] =
                 IF Addressed(p)
                 THEN [Issued(p) EXCEPT !.existing_definition = DefinitionFromId(inv[p].pipeline_id),
                                        !.pc = "a_describe"]
                 ELSE Raised(p)]
    /\ UNCHANGED <<remote, nextId>> /\ Apart

\* state = state_from_id(self.conn, pipeline_id), and the branch
ConcDescribe(p) ==
    /\ inv[p].pc = "a_describe"
    /\ inv' = [inv EXCEPT ![p] =
                 IF Addressed(p)
                 THEN LET st == StateFromId(inv[p].pipeline_id)
                          b  == Branch(inv[p].existing_definition,
                                       pipelines[Shared].definition, st)
                      IN  [Issued(p) EXCEPT !.state = st,
                                            !.pc = IF b = "noop" THEN "done"
                                                   ELSE IF b = "delete" THEN "a_delete"
                                                   ELSE "a_put"]
                 ELSE Raised(p)]
    /\ UNCHANGED <<remote, nextId>> /\ Apart

\* self.conn.delete_pipeline(pipeline_id); return self.activate()
ConcDelete(p) ==
    /\ inv[p].pc = "a_delete"
    /\ IF Addressed(p)
       THEN /\ remote' = DeleteRemote(inv[p].pipeline_id)
            /\ inv' = [inv EXCEPT ![p] = [Issued(p) EXCEPT !.deleted = @ \cup {inv[p].pipeline_id},
                                                          !.pc = "a_create"]]
       ELSE /\ remote' = remote
            /\ inv' = [inv EXCEPT ![p] = Raised(p)]
    /\ UNCHANGED nextId /\ Apart

\* self.conn.put_pipeline_definition(...)
ConcPut(p) ==
    /\ inv[p].pc = "a_put"
    /\ IF Addressed(p)
       THEN /\ remote' = PutRemote(inv[p].pipeline_id, ApiPayload(pipelines[Shared]))
            /\ inv' = [inv EXCEPT ![p] = [Issued(p) EXCEPT !.pc = "a_activate"]]
       ELSE /\ remote' = remote
            /\ inv' = [inv EXCEPT ![p] = Raised(p)]
    /\ UNCHANGED nextId /\ Apart

\* self.conn.activate_pipeline(pipeline_id); the method ends
ConcActivate(p) ==
    /\ inv[p].pc = "a_activate"
    /\ IF Addressed(p)
       THEN /\ remote' = ActivateRemote(inv[p].pipeline_id)
            /\ inv' = [inv EXCEPT ![p] = [Issued(p) EXCEPT !.pc = "done"]]
       ELSE /\ remote' = remote
            /\ inv' = [inv EXCEPT ![p] = Raised(p)]
    /\ UNCHANGED nextId /\ Apart

NextConcurrent ==
    \E p \in Procs :
        \/ ConcCreate(p)
        \/ ConcGetDefinition(p)
        \/ ConcDescribe(p)
        \/ ConcDelete(p)
        \/ ConcPut(p)
        \/ ConcActivate(p)

SpecConcurrent == InitConcurrent /\ [][NextConcurrent]_vars

\* ------------------------------------------------ remote calls that fail
\* The remote call each position of the code is about to make.
CallAt ==
    [v_create   |-> "create_pipeline",
     v_validate |-> "validate_pipeline_definition",
     a_create   |-> "create_pipeline",
     a_get      |-> "get_pipeline_definition",
     a_describe |-> "describe_pipelines",
     a_delete   |-> "delete_pipeline",
     a_put      |-> "put_pipeline_definition",
     a_activate |-> "activate_pipeline"]

ACTIVATE_STEPS == {"a_create", "a_get", "a_describe", "a_delete", "a_put", "a_activate"}

\* (variant: the for-loop of Pipelayer.activate wraps p.activate() in a
\* try/except that goes on with the next instance)
OnRaiseSwallow(call, at) ==
    IF call = "Pipelayer.activate" /\ at \in ACTIVATE_STEPS THEN "continue"
    ELSE "propagate"

\* What an exception of a remote call meets on its way up: no try/except in
\* Pipeline.create, is_valid, Pipeline.activate, are_pipelines_valid or the
\* for-loop of Pipelayer.activate.
OnRaise(call, at) == "propagate"

\* The remote call at the current position raises (network, authorization,
\* quota); it has no effect on the service.
Fail ==
    /\ pc \in DOMAIN CallAt
    /\ log' = Append(log, [Entry(CallAt[pc], pipeline_id,
                                 IF pc = "v_create" THEN PIPELAYER_STUB_PARAMS.unique_id
                                 ELSE IF pc = "a_create" THEN pipelines[cur].unique_id
                                 ELSE KeyOf(pipeline_id), cur)
                              EXCEPT !.failed = TRUE])
    /\ IF OnRaise(top, pc) = "propagate"
       THEN pc' = "idle" /\ ret' = "raised"
       ELSE pc' = "a_loop" /\ ret' = ret
    /\ UNCHANGED <<otherVars, svcVars, setVars, timeVars, prev, top, cur, todo, results,
                   pipeline_id, existing_definition, state, depth>>

NextFailing == Next \/ Fail

SpecFailing == Init /\ [][NextFailing]_vars


\* ------------------------------------------------ schedule-time arithmetic
\* Times are counted in ticks, the resolution of datetime (a microsecond);
\* a timestamp string holds whole seconds only.
TicksPerSecond == 2
\* Timestamps of values.json: second 0..MaxTimestamp.
MaxTimestamp == 3
\* The <number> of a period string: 0..MaxNumber.
MaxNumber == 3
\* datetime.utcnow(): tick 0..MaxNow.
MaxNow == 8

\* The units of a period string taken here: each is a keyword of timedelta.
UNITS == {"microseconds", "seconds"}

UnitTicks(unit) == IF unit = "seconds" THEN TicksPerSecond ELSE 1

\* parse_period: timedelta(**{unit: int(number)})
ParsePeriod(p) == p.number * UnitTicks(p.unit)

\* datetime.strptime(timestamp, PIPELINE_DATETIME_FORMAT)
Strptime(secs) == secs * TicksPerSecond

\* dt.strftime(PIPELINE_DATETIME_FORMAT): the format has no sub-second field
Strftime(ticks) == ticks \div TicksPerSecond

\* (variant: the loop goes on while dt <= now)
InPastOrNow(d, n) == d <= n

\* (variant: the loop stops one tick early)
InPastByMore(d, n) == d + 1 < n

\* the loop condition of adjusted_to_future
InPast(d, n) == d < n

\* The Pipelayer part at rest, for the runs of the arithmetic alone.
SetIdle ==
    /\ remote = NoPipelines /\ nextId = 1 /\ rejects = {}
    /\ template = EmptyDefinition /\ pipelines = NoPipelines
    /\ top = "none" /\ pc = "off" /\ cur = "-" /\ todo = {}
    /\ results = NoPipelines
    /\ pipeline_id = 0 /\ existing_definition = EmptyDefinition /\ state = "-"
    /\ depth = 0 /\ ret = "-" /\ log = <<>> /\ prev = NoPrev
    /\ OthersIdle

\* Pipeline.__init__ has read values.json: myStartDateTime and mySchedulePeriod
InitTime ==
    /\ SetIdle
    /\ timestamp \in 0..MaxTimestamp
    /\ period \in [number : 0..MaxNumber, unit : UNITS]
    /\ dt = 0 /\ delta = 0 /\ now = 0
    /\ tpc = "call" /\ myStartDateTime = -1

\* adjusted_to_future: strptime, parse_period, utcnow
AtfBegin ==
    /\ tpc = "call"
    /\ dt' = Strptime(timestamp)
    /\ delta' = ParsePeriod(period)
    /\ now' \in 0..MaxNow
    /\ tpc' = "loop"
    /\ UNCHANGED <<otherVars, svcVars, setVars, callVars, timestamp, period, myStartDateTime>>

\* adjusted_to_future: while dt < now: dt += delta
AtfLoop ==
    /\ tpc = "loop" /\ InPast(dt, now)
    /\ dt' = dt + delta
    /\ UNCHANGED <<otherVars, svcVars, setVars, callVars, timestamp, period, delta, now, tpc,
                   myStartDateTime>>

\* adjusted_to_future returns dt.strftime(...); __init__ stores it in self.values
AtfReturn ==
    /\ tpc = "loop" /\ ~InPast(dt, now)
    /\ myStartDateTime' = Strftime(dt)
    /\ tpc' = "done"
    /\ UNCHANGED <<otherVars, svcVars, setVars, callVars, timestamp, period, dt, delta, now>>

NextTime == AtfBegin \/ AtfLoop \/ AtfReturn

SpecTime == InitTime /\ [][NextTime]_vars

\* The interpreter keeps executing the function it is in.
SpecTimeFair == SpecTime /\ WF_vars(NextTime)


\* ------------------------------------------------------------ properties
Indices == 1..Len(log)
Count(op) == Cardinality({i \in Indices : log[i].op = op})
OpsOf(l) == [i \in 1..Len(l) |-> l[i].op]
MUTATING == {"put_pipeline_definition", "activate_pipeline", "delete_pipeline"}
STUB == PIPELAYER_STUB_PARAMS.unique_id

\* A single p.activate() call, running or returned.
InActivate == top = "Pipeline.activate"
Returned == pc = "idle"
\* What the first pass of that call read from the service.
ReadDefinition == Len(log) >= 2
ReadState == Len(log) >= 3
FirstDefinition == log[2].definition
FirstState == log[3].state
Desired == pipelines[cur].definition

\* Any step of a running call.
Step ==
    \/ ValidateNext \/ ValidateDone \/ StubCreate \/ Validate
    \/ ActivateNext \/ ActivateAllDone
    \/ Create \/ GetDefinition \/ Describe \/ Delete \/ Put \/ Activate

\* C1: a single Pipeline.activate() call, from any remote state and for any
\* desired definition, issues at most one delete_pipeline, at most one
\* put_pipeline_definition and at most one activate_pipeline, makes at most two
\* passes (nine remote calls), and can always take its next step until it returns.
C1_AtMostOneDeleteOnePush ==
    InActivate =>
        /\ Count("delete_pipeline") <= 1
        /\ Count("put_pipeline_definition") <= 1
        /\ Count("activate_pipeline") <= 1
        /\ depth <= 2 /\ Len(log) <= 9
        /\ (~Returned => ENABLED Step)

\* C1 witness: a call that returned after one delete and one put + activate.
C1_Witness ==
    /\ InActivate /\ Returned
    /\ Count("delete_pipeline") = 1
    /\ Count("put_pipeline_definition") = 1
    /\ Count("activate_pipeline") = 1

\* C2: when the definition read from the service equals the desired one,
\* Pipeline.activate() issues no put, activate or delete call and returns True
\* right after reading the state, whatever that state is.
C2_EqualIsNoOp ==
    (InActivate /\ ReadDefinition /\ FirstDefinition = Desired) =>
        /\ \A i \in Indices : log[i].op \notin MUTATING
        /\ ReadState => (Returned /\ ret = "True" /\ Len(log) = 3)

\* C2 witness: the no-op path taken on an entity that is already activated.
C2_Witness ==
    /\ InActivate /\ Returned /\ ReadState
    /\ FirstDefinition = Desired /\ FirstState = "SCHEDULED"
    /\ ret = "True"

\* C3: when the entity is PENDING and its definition differs from the desired
\* one, Pipeline.activate() never deletes, and returns after exactly one put
\* followed by exactly one activate, both on the id create returned.
C3_PendingIsPutThenActivate ==
    (InActivate /\ ReadState /\ FirstDefinition # Desired /\ FirstState = "PENDING") =>
        /\ Count("delete_pipeline") = 0
        /\ Returned =>
            /\ OpsOf(log) = <<"create_pipeline", "get_pipeline_definition",
                              "describe_pipelines", "put_pipeline_definition",
                              "activate_pipeline">>
            /\ log[4].id = log[1].id /\ log[5].id = log[1].id

\* C3 witness: a returned call on a PENDING entity that held another definition.
C3_Witness ==
    /\ InActivate /\ Returned /\ ReadState
    /\ FirstDefinition # Desired /\ FirstState = "PENDING"
    /\ FirstDefinition # EmptyDefinition
    /\ Count("activate_pipeline") = 1

DeleteThenPush ==
    /\ OpsOf(log) = <<"create_pipeline", "get_pipeline_definition", "describe_pipelines",
                      "delete_pipeline",
                      "create_pipeline", "get_pipeline_definition", "describe_pipelines",
                      "put_pipeline_definition", "activate_pipeline">>
    /\ ~log[1].new /\ log[4].id = log[1].id
    /\ log[5].new /\ log[5].id # log[1].id
    /\ log[8].id = log[5].id /\ log[9].id = log[5].id

DeleteThenNoOp ==
    /\ OpsOf(log) = <<"create_pipeline", "get_pipeline_definition", "describe_pipelines",
                      "delete_pipeline",
                      "create_pipeline", "get_pipeline_definition", "describe_pipelines">>
    /\ ~log[1].new /\ log[4].id = log[1].id
    /\ log[5].new /\ log[5].id # log[1].id
    /\ ret = "True"

Stale == InActivate /\ ReadState /\ FirstDefinition # Desired /\ FirstState # "PENDING"

\* C4 as claimed: when the entity is not PENDING and its definition differs,
\* then for every desired definition the call returns after one delete, one
\* creation of a new entity, one put and one activate, in that order.
C4_AsClaimed == (Stale /\ Returned) => DeleteThenPush

\* C4 amended: when the entity is not PENDING and its definition differs, the
\* call issues exactly one delete; if the desired definition is not the empty
\* definition a new entity reports, it returns after one delete, one creation,
\* one put and one activate, in that order; if it is, the restart takes the
\* no-op branch and the call returns after the delete and the creation alone.
C4_StaleIsDeleteThenPush ==
    Stale =>
        /\ Count("delete_pipeline") <= 1
        /\ Returned => IF Desired # EmptyDefinition THEN DeleteThenPush ELSE DeleteThenNoOp

\* C4 witness: a returned call that deleted an activated entity and pushed to a new one.
C4_Witness ==
    /\ Stale /\ Returned /\ FirstState = "SCHEDULED"
    /\ Desired # EmptyDefinition
    /\ Count("put_pipeline_definition") = 1

Reconciling(e) ==
    \/ e.op \in MUTATING
    \/ e.op \in {"get_pipeline_definition", "describe_pipelines"}
    \/ e.op = "create_pipeline" /\ e.key # STUB

InActivateAll == top = "Pipelayer.activate"

\* C5: in Pipelayer.activate(), when the service reports errored for at least
\* one registered instance, no call but the stub's create_pipeline and
\* validate_pipeline_definition is issued for any instance, and the call returns False.
C5_FailClosed ==
    (InActivateAll /\ \E n \in DOMAIN pipelines : Errored(pipelines[n])) =>
        /\ \A i \in Indices : ~Reconciling(log[i])
        /\ Returned => ret = "False"

\* C5 witness: the call returned False with one instance valid and one errored.
C5_Witness ==
    /\ InActivateAll /\ Returned /\ ret = "False"
    /\ \E n, m \in DOMAIN pipelines : Errored(pipelines[n]) /\ ~Errored(pipelines[m])
    /\ Count("validate_pipeline_definition") = 2

\* C6: in Pipelayer.activate(), every registered instance's
\* validate_pipeline_definition call comes before the first reconciliation
\* call (create of a real deployment, get, describe, put, activate, delete).
C6_ValidateAllFirst ==
    InActivateAll =>
        \A i \in Indices : Reconciling(log[i]) =>
            \A n \in DOMAIN pipelines :
                \E j \in 1..(i - 1) :
                    log[j].op = "validate_pipeline_definition" /\ log[j].by = n

\* C6 witness: the call returned after validating and activating two instances.
C6_Witness ==
    /\ InActivateAll /\ Returned /\ ret = "None"
    /\ Cardinality(DOMAIN pipelines) = 2
    /\ Count("put_pipeline_definition") >= 1

\* C7 as claimed: two instances with different names pass different keys to
\* create_pipeline and get different remote entities, and no instance deletes
\* or overwrites the entity another instance's create returned.
C7_KeyPerPipeline ==
    \A i, j \in Indices :
        (log[i].op = "create_pipeline" /\ log[i].key # STUB /\ log[i].by # log[j].by) =>
            /\ (log[j].op = "create_pipeline" /\ log[j].key # STUB) =>
                  (log[j].key # log[i].key /\ log[j].id # log[i].id)
            /\ (log[j].op \in {"delete_pipeline", "put_pipeline_definition"}) =>
                  log[j].id # log[i].id

\* C8: the validation stub is never a deployment: no put, activate or delete
\* call addresses it, and it stays PENDING with nothing put to it.
C8_StubUntouched ==
    /\ \A i \in Indices : log[i].op \in MUTATING => log[i].key # STUB
    /\ \A id \in DOMAIN remote :
          remote[id].key = STUB => remote[id] = FreshEntity(STUB)

\* C8 witness: Pipelayer.activate() returned after validating against the stub
\* and pushing a definition, the stub still there.
C8_Witness ==
    /\ InActivateAll /\ Returned /\ ret = "None"
    /\ Count("put_pipeline_definition") >= 1
    /\ HasKey(STUB)


\* The timestamp given and the timestamp returned, in ticks.
Given == Strptime(timestamp)
Adjusted == Strptime(myStartDateTime)
Done == tpc = "done"

\* k is the smallest non-negative integer with Given + k * delta >= now
Least(k) ==
    /\ Given + k * delta >= now
    /\ \A j \in 0..(k - 1) : Given + j * delta < now

\* C9 as claimed: for every timestamp and every period > 0 the timestamp
\* returned (and stored as myStartDateTime) is Given + k * period for the
\* smallest k >= 0 that brings it to now or later, so it is never before now.
C9_LeastMultipleNotBeforeNow ==
    (Done /\ delta > 0) =>
        /\ \E k \in 0..now : Adjusted = Given + k * delta /\ Least(k)
        /\ Adjusted >= now

\* C9 for periods of whole seconds, where strftime loses nothing: the timestamp
\* returned is Given + k * period for the smallest such k, and not before now.
C9_WholeSecondPeriods ==
    (Done /\ delta > 0 /\ delta % TicksPerSecond = 0) =>
        /\ \E k \in 0..now : Adjusted = Given + k * delta /\ Least(k)
        /\ Adjusted >= now

InAreValid == top = "are_pipelines_valid"
CountBy(op, n) == Cardinality({i \in Indices : log[i].op = op /\ log[i].by = n})

\* C11: are_pipelines_valid() returns True exactly when the service reports no
\* instance errored, and it runs is_valid on every registered instance once,
\* whatever the earlier results: one create_pipeline of the stub and one
\* validate_pipeline_definition per instance, and no other call.
C11_AllValidatedOnce ==
    (InAreValid /\ Returned) =>
        /\ ret = "True" <=> \A n \in DOMAIN pipelines : ~Errored(pipelines[n])
        /\ \A n \in DOMAIN pipelines :
              /\ CountBy("create_pipeline", n) = 1
              /\ CountBy("validate_pipeline_definition", n) = 1
        /\ Len(log) = 2 * Cardinality(DOMAIN pipelines)
        /\ \A i \in Indices : log[i].key = STUB

\* C11 witness: the first instance validated was errored and the second one
\* was validated all the same.
C11_Witness ==
    /\ InAreValid /\ Returned /\ ret = "False"
    /\ Len(log) = 4
    /\ Errored(pipelines[log[2].by])
    /\ log[4].op = "validate_pipeline_definition" /\ log[4].by # log[2].by

\* ceil(a / b) for a >= 0, b > 0
CeilDiv(a, b) == (a + b - 1) \div b

\* The closed form: Given + k * delta with k = ceil((now - Given) / delta)
ClosedForm == Given + CeilDiv(now - Given, delta) * delta

\* C16: for a timestamp not after now and a period > 0, the loop ends at the
\* instant of the closed form t + ceil((now - t) / p) * p, and the string
\* returned is that instant in the same format.
C16_LoopIsClosedForm ==
    (Done /\ delta > 0 /\ Given <= now) =>
        /\ dt = ClosedForm
        /\ myStartDateTime = Strftime(ClosedForm)

\* C16 witness: the period was added at least twice and now is not on a multiple.
C16_Witness ==
    /\ Done /\ delta > 0 /\ Given < now
    /\ dt >= Given + 2 * delta
    /\ (now - Given) % delta # 0

\* C18 as claimed: the period parse_period returns is > 0, so every iteration
\* of the loop brings dt closer to now and the loop ends, for every period
\* string parse_period accepts, the number 0 included.
C18_LoopAdvances ==
    (tpc = "loop" /\ InPast(dt, now)) =>
        (delta > 0 /\ now - (dt + delta) < now - dt)

\* C18 as a property of behaviours, under SpecTimeFair: the call returns.
C18_Terminates == <>Done

\* C19 as claimed: whenever Pipeline.activate() returns, the definition the
\* service holds under the id create returned equals the desired definition.
C19_Converges ==
    (InActivate /\ Returned) => DefinitionFromId(pipeline_id) = Desired

\* C20 as claimed: whenever Pipeline.activate() returns, the entity is not PENDING.
C20_NeverLeftPending ==
    (InActivate /\ Returned) => StateFromId(pipeline_id) # "PENDING"

\* C20 amended: a call that returns by the push path (None) leaves the entity
\* activated; a call that returns by the no-op path (True) leaves it in the
\* state it read, so the entity is left PENDING exactly when the last pass
\* read it PENDING with a definition equal to the desired one.
C20_PendingOnlyByNoOp ==
    (InActivate /\ Returned) =>
        /\ ret = "None" =>
              /\ StateFromId(pipeline_id) = "SCHEDULED"
              /\ log[Len(log)].op = "activate_pipeline" /\ log[Len(log)].id = pipeline_id
        /\ ret = "True" =>
              /\ StateFromId(pipeline_id) = state
              /\ existing_definition = Desired
              /\ log[Len(log)].op = "describe_pipelines"
        /\ StateFromId(pipeline_id) = "PENDING" <=> (ret = "True" /\ state = "PENDING")

\* C20 witness: a PENDING entity that held the desired definition (a put
\* without activate) is left PENDING by a returned call.
C20_Witness ==
    /\ InActivate /\ Returned /\ ret = "True"
    /\ Len(log) = 3 /\ ~log[1].new
    /\ Desired # EmptyDefinition
    /\ StateFromId(pipeline_id) = "PENDING"


\* The running (or returned) p.activate() directly follows a returned
\* p.activate() of the same instance.
Repeated == InActivate /\ prev.repeat

\* C13 as claimed: a Pipeline.activate() that directly follows a returned
\* Pipeline.activate() of the same instance gets the same id from create (no
\* new entity), issues no put, activate or delete, and returns True by the
\* no-op path.
C13_SecondRunIsNoOp ==
    Repeated =>
        /\ \A i \in Indices : log[i].op \notin MUTATING
        /\ Len(log) >= 1 => (~log[1].new /\ log[1].id = prev.id)
        /\ ReadState => (Returned /\ ret = "True" /\ Len(log) = 3)

\* When the template's own 'values' part is what the instance sends as its
\* values, the second run is the no-op of C13.
C13_WhenTemplateHoldsValues ==
    (Repeated /\ Desired = ApiPayload(pipelines[cur])) =>
        /\ \A i \in Indices : log[i].op \notin MUTATING
        /\ Len(log) >= 1 => (~log[1].new /\ log[1].id = prev.id)
        /\ ReadState => (Returned /\ ret = "True" /\ Len(log) = 3)


\* C14 as claimed: whatever the service answers, a Pipeline.activate() call
\* makes at most two passes of the algorithm.
C14_AtMostTwoPasses == InActivate => depth <= 2


Failed(i) == log[i].failed

\* C17: in Pipelayer.activate(), once a remote call of an instance's
\* activate() has failed, no further call is made, the batch is over and its
\* outcome is the failure: never a normal result.
C17_FailureReachesCaller ==
    InActivateAll =>
        \A i \in Indices :
            (Failed(i) /\ log[i].op \in {CallAt[a] : a \in ACTIVATE_STEPS}
                       /\ log[i].key # STUB) =>
                /\ i = Len(log)
                /\ Returned /\ ret = "raised"

\* Reached: the second instance's activate() fails after the first instance
\* has been activated.
C17_Witness ==
    /\ InActivateAll /\ Returned /\ ret = "raised"
    /\ Len(log) >= 1 /\ Failed(Len(log))
    /\ log[Len(log)].op \in {"put_pipeline_definition", "activate_pipeline", "delete_pipeline"}
    /\ \E i \in Indices : /\ log[i].op = "activate_pipeline" /\ ~Failed(i)
                         /\ log[i].by # log[Len(log)].by


\* C12 as claimed: a change to a field of a nested object of one instance's
\* definition leaves what the template and every other instance show as it
\* was.
C12_ChangeStaysLocal ==
    [][\A n \in Names, k \in KEYS : \A c \in FieldRange(k) :
          SetField(n, k, c) =>
              /\ View(tdict)' = View(tdict)
              /\ \A m \in DOMAIN idict \ {n} : View(idict[m])' = View(idict[m])]_vars

\* (supplementary) rebinding a key of one instance's dict does stay local:
\* this much template.copy() gives.
C12_RebindStaysLocal ==
    [][\A n \in Names, k \in KEYS : \A c \in FieldRange(k) :
          SetKey(n, k, c) =>
              /\ View(tdict)' = View(tdict)
              /\ \A m \in DOMAIN idict \ {n} : View(idict[m])' = View(idict[m])]_vars


\* C15 as claimed: of two overlapping activate() invocations for the same
\* instance, neither issues get-definition, describe, put, activate or delete
\* against an id the other one has already deleted.
C15_NoCallOnDeletedId == \A p \in DOMAIN inv : ~inv[p].stale

====
